---- MODULE Spec2Model ----
(***************************************************************************)
(* The chapter pipeline of OpenNovel (workflow/graph.py and                *)
(* workflow/conditions.py) as a state machine.                             *)
(*                                                                         *)
(* One action per graph node.  Every node reads the run-state, returns a   *)
(* partial update, the driver merges the update into the run-state, and    *)
(* the edge leaving the node (a fixed edge or a route_after_* function     *)
(* evaluated on the merged run-state) picks the next node.                 *)
(***************************************************************************)
EXTENDS Integers, Sequences, FiniteSets, TLC

(***************************************************************************)
(* Bounds of the model.                                                    *)
(***************************************************************************)
MaxRevisions == 2       \* settings.max_revisions ranges over 1..MaxRevisions
MaxInterval == 1        \* settings.global_review_interval over 1..MaxInterval
MaxChapter == 2         \* chapter numbers of an explicit chapter_list
MaxListLen == 2         \* length of an explicit chapter_list
MaxTarget == 2          \* target_chapters argument of a range run
MaxExisting == 1        \* chapters already stored for the existing novel
LongRevisions == 24     \* a large max_revisions, for the long-loop run

(***************************************************************************)
(* Program constants.                                                      *)
(***************************************************************************)
MAX_NODE_RETRIES == 2   \* graph.py: _MAX_NODE_RETRIES
PASS_SCORE == 6         \* reviewer_agent.py: passed = score >= 6.0 and ...
OUTLINE_BATCH_SIZE == 5 \* graph.py: _OUTLINE_BATCH_SIZE
MIN_RECURSION_LIMIT == 50
STEPS_PER_CHAPTER == 15
STEPS_SLACK == 30

ExistingNovel == 1      \* id of the novel already in the store
MissingNovel == 9       \* an id the store has no novel for
CreatedNovel == 2       \* lastrowid of the novel plan_novel inserts

VARIABLES
    pc,               \* the node the driver runs next, "__end__", or the
                      \* exception that left the graph
    state,            \* NovelWorkflowState, the run-state
    settings,         \* r.settings: max_revisions, global_review_interval
    novels,           \* ids of the stored novels
    chapters,         \* stored chapter rows
    recursion_limit,  \* config["recursion_limit"] of this run
    steps,            \* nodes executed so far (super-steps of the graph)
    args,             \* the arguments run_workflow was called with
    stored0,          \* chapters the existing novel had when the run began
    reviewer,         \* behaviour of the Reviewer in this run
    reviews,          \* review passes of the chapter in progress
    fails,            \* of these, the ones the Reviewer reported not passed
    loaded,           \* chapter numbers LOAD_CHAPTER_CONTEXT was run for
    audits,           \* chapter numbers GLOBAL_REVIEW was run after
    raised_at,        \* node at which the exception arose, or "none"
    outlines,         \* chapter numbers the run's novel has an outline for
    memory,           \* behaviour of the MemoryManager in this run
    outline_src,      \* where LOAD_CHAPTER_CONTEXT last got its outline
    comp,             \* a component called on its own: its inputs and result
    llm               \* behaviour of the Writer's and Editor's LLM in this run

vars == <<pc, state, settings, novels, chapters, recursion_limit, steps,
          args, stored0, reviewer, reviews, fails, loaded, audits, raised_at,
          outlines, memory, outline_src, comp, llm>>

\* no component is being called on its own: the pipeline runs
NoCall == [fn |-> "none"]

Max(a, b) == IF a >= b THEN a ELSE b
Min(a, b) == IF a <= b THEN a ELSE b

RECURSIVE SeqMax(_)
SeqMax(s) == IF Len(s) = 0 THEN 0 ELSE Max(Head(s), SeqMax(Tail(s)))

(***************************************************************************)
(* Error messages are sequences of words; "" is the empty sequence.        *)
(***************************************************************************)
NoError == << >>
Lower(w) == IF w = "Timeout" THEN "timeout" ELSE w
RecoverableKeywords == {"timeout", "rate limit", "connection", "temporary"}
LLMCauses == {"Timeout", "refused"}
LLMFailure(cause) == <<"Agent SDK query failed:", cause>>

(***************************************************************************)
(* The driver: merge of a node's partial update into the run-state.        *)
(***************************************************************************)
Merge(s, u) == [k \in DOMAIN s |-> IF k \in DOMAIN u THEN u[k] ELSE s[k]]

(***************************************************************************)
(* The store.                                                              *)
(***************************************************************************)
get_novel(novel_id) == novel_id \in novels

get_last_chapter_number(novel_id) ==
    LET nums == {c.chapter_number : c \in {x \in chapters : x.novel_id = novel_id}}
    IN IF nums = {} THEN 0 ELSE CHOOSE m \in nums : \A n \in nums : n <= m

get_chapter(novel_id, n) ==
    {c \in chapters : c.novel_id = novel_id /\ c.chapter_number = n}

(***************************************************************************)
(* Review results.                                                         *)
(***************************************************************************)
NoSummary == [forced |-> FALSE, limit |-> 0, skipped |-> FALSE]
\* The issues of a review result are told apart by the text reviewed: the
\* issues found in text t are IssuesOf(t).  NoIssues: the result has no
\* "issues" key, or there is no result.
NoIssues == <<"none">>
IssuesOf(text) == <<"issues", text.chapter, text.edits>>
EmptyReview == [empty |-> TRUE, passed |-> FALSE, score |-> 0, critical |-> 0,
                summary |-> NoSummary, issues |-> NoIssues]

\* A text is known by the chapter it was drafted for and by whether the
\* Editor has worked on it (edits = 1) or not; NoContent is the empty string.
NoContent == [chapter |-> 0, edits |-> 0]

Scores == {5, 8}
\* ReviewerAgent._programmatic_review, the fallback when the LLM call fails:
\* 8 for clean content, lower with each defect found, a critical issue when
\* the chapter is more than 500 characters short
ProgrammaticReviews ==
    {[score |-> 8, critical |-> 0], [score |-> 5, critical |-> 0],
     [score |-> 5, critical |-> 1]}

ReviewerOutputs(policy) ==
    IF policy = "pass8" THEN {[score |-> 8, critical |-> 0]}
    ELSE IF policy = "outage" THEN ProgrammaticReviews
    ELSE [score : Scores, critical : 0..1]

\* min(10.0, max(0.0, score))
Clamped(score) == Min(10, Max(0, score))

\* the verdict computed from the score alone
ReviewerAgent_review_chapter_by_score(raw) ==
    [empty |-> FALSE,
     passed |-> (Clamped(raw.score) >= PASS_SCORE),
     score |-> Clamped(raw.score),
     critical |-> raw.critical,
     summary |-> NoSummary,
     issues |-> NoIssues]

\* ReviewerAgent.review_chapter: the verdict computed from the raw output.
ReviewerAgent_review_chapter(raw) ==
    [empty |-> FALSE,
     passed |-> (Clamped(raw.score) >= PASS_SCORE /\ raw.critical = 0),
     score |-> Clamped(raw.score),
     critical |-> raw.critical,
     summary |-> NoSummary,
     issues |-> NoIssues]

(***************************************************************************)
(* run_workflow: the initial run-state and the step limit.                 *)
(***************************************************************************)
InitialState(a) ==
    [mode |-> a.mode,
     novel_id |-> a.novel_id,
     genre |-> a.genre,
     premise |-> a.premise,
     target_chapters |-> a.target_chapters,
     chapter_list |-> a.chapter_list,
     chapter_list_index |-> 0,
     current_chapter |-> 0,
     chapters_written |-> 0,
     revision_count |-> 0,
     max_revisions |-> 0,
     global_review_interval |-> 0,
     review_result |-> EmptyReview,
     draft_content |-> NoContent,
     edited_content |-> NoContent,
     error |-> NoError,
     should_stop |-> FALSE,
     last_node |-> "",
     retry_count |-> 0]

num_chapters(a) ==
    IF a.chapter_list # << >> THEN Len(a.chapter_list)
    ELSE a.target_chapters

RecursionLimit(a) ==
    Max(MIN_RECURSION_LIMIT, num_chapters(a) * STEPS_PER_CHAPTER + STEPS_SLACK)

(***************************************************************************)
(* Node functions: each returns the partial update of the run-state.       *)
(***************************************************************************)
base_updates ==
    [max_revisions |-> settings.max_revisions,
     global_review_interval |-> settings.global_review_interval,
     retry_count |-> 0,
     last_node |-> "initialize"]

InitError(msg) == base_updates @@ [error |-> msg]

\* initialize that takes target_chapters as a chapter number, not a count
initialize_absolute_target(s) ==
    IF s.mode = "continue" THEN
        IF ~get_novel(s.novel_id) THEN InitError(<<"Novel", "not found">>)
        ELSE IF s.chapter_list # << >> THEN
            base_updates @@
            [novel_id |-> s.novel_id,
             current_chapter |-> s.chapter_list[1],
             target_chapters |-> SeqMax(s.chapter_list),
             chapter_list |-> s.chapter_list,
             chapter_list_index |-> 0,
             chapters_written |-> 0,
             revision_count |-> 0,
             should_stop |-> FALSE,
             error |-> NoError]
        ELSE
            LET last_ch == get_last_chapter_number(s.novel_id)
                target == s.target_chapters
                actual_target == IF target > 0 THEN target ELSE 0
            IN  base_updates @@
                [novel_id |-> s.novel_id,
                 current_chapter |-> last_ch + 1,
                 target_chapters |-> actual_target,
                 chapters_written |-> 0,
                 revision_count |-> 0,
                 should_stop |-> FALSE,
                 error |-> NoError]
    ELSE IF s.mode \in {"new", "plan_only"} THEN
        IF s.genre = "" THEN InitError(<<"Genre is required for new novel">>)
        ELSE IF Len(s.premise) < 2 THEN InitError(<<"Premise is required">>)
        ELSE
            base_updates @@
            [current_chapter |-> 1,
             target_chapters |-> s.target_chapters,
             chapters_written |-> 0,
             revision_count |-> 0,
             should_stop |-> FALSE,
             error |-> NoError]
    ELSE InitError(<<"Unknown mode:", s.mode>>)

initialize(s) ==
    IF s.mode = "continue" THEN
        IF ~get_novel(s.novel_id) THEN InitError(<<"Novel", "not found">>)
        ELSE IF s.chapter_list # << >> THEN
            base_updates @@
            [novel_id |-> s.novel_id,
             current_chapter |-> s.chapter_list[1],
             target_chapters |-> SeqMax(s.chapter_list),
             chapter_list |-> s.chapter_list,
             chapter_list_index |-> 0,
             chapters_written |-> 0,
             revision_count |-> 0,
             should_stop |-> FALSE,
             error |-> NoError]
        ELSE
            LET last_ch == get_last_chapter_number(s.novel_id)
                target == s.target_chapters
                actual_target == IF target > 0 THEN last_ch + target ELSE 0
            IN  base_updates @@
                [novel_id |-> s.novel_id,
                 current_chapter |-> last_ch + 1,
                 target_chapters |-> actual_target,
                 chapters_written |-> 0,
                 revision_count |-> 0,
                 should_stop |-> FALSE,
                 error |-> NoError]
    ELSE IF s.mode \in {"new", "plan_only"} THEN
        IF s.genre = "" THEN InitError(<<"Genre is required for new novel">>)
        ELSE IF Len(s.premise) < 2 THEN InitError(<<"Premise is required">>)
        ELSE
            base_updates @@
            [current_chapter |-> 1,
             target_chapters |-> s.target_chapters,
             chapters_written |-> 0,
             revision_count |-> 0,
             should_stop |-> FALSE,
             error |-> NoError]
    ELSE InitError(<<"Unknown mode:", s.mode>>)

\* the outlines plan_novel stores: PlannerAgent.generate_outline returns every
\* volume with "chapters": [] (planner_agent.py:236-243), so the loop over
\* vol_data["chapters"] stores none; outlines come from on-demand expansion
PlannedOutlines(s) == {}

\* outcome: "ok", or the cause of the Planner's failure
plan_novel(s, outcome) ==
    IF outcome # "ok"
    THEN [error |-> <<"Planning failed:">> \o LLMFailure(outcome),
          last_node |-> "plan_novel"]
    ELSE [novel_id |-> CreatedNovel, last_node |-> "plan_novel"]

\* the outlines one on-demand batch starting at chapter ch asks for
OutlineBatch(ch) == ch..(ch + OUTLINE_BATCH_SIZE - 1)

\* src: where the outline comes from, "stored" (found in the store),
\* "expanded" (stored by on-demand expansion) or "placeholder"
OutlineSources == {"stored", "expanded", "placeholder"}

\* load_chapter_context that forgets to reset revision_count
load_chapter_context_no_reset(s, src) == [last_node |-> "load_chapter_context"]

\* load_chapter_context whose placeholder return leaves revision_count alone
load_chapter_context_placeholder_keeps(s, src) ==
    IF src = "placeholder"
    THEN [last_node |-> "load_chapter_context"]
    ELSE [revision_count |-> 0, last_node |-> "load_chapter_context"]

load_chapter_context(s, src) ==
    IF src = "stored"
    THEN [revision_count |-> 0, last_node |-> "load_chapter_context"]
    ELSE IF src = "expanded"
    THEN [revision_count |-> 0, last_node |-> "load_chapter_context"]
    ELSE [revision_count |-> 0, last_node |-> "load_chapter_context"]

retrieve_memory(s) == [last_node |-> "retrieve_memory"]

\* outcome: "ok", or the cause of the LLMError the Writer raised
write_chapter(s, outcome) ==
    IF outcome # "ok"
    THEN [error |-> LLMFailure(outcome), last_node |-> "write_chapter"]
    ELSE [draft_content |-> [chapter |-> s.current_chapter, edits |-> 0],
          last_node |-> "write_chapter"]

\* outcome: "ok", or the cause of the LLMError the Editor raised
\* what edit_chapter hands to the Editor: lines 660-671
EditorInput(s) ==
    [review_issues |->
         IF ~s.review_result.empty /\ ~s.review_result.passed
         THEN s.review_result.issues ELSE NoIssues,
     content |->
         IF s.revision_count > 0 /\ s.edited_content # NoContent
         THEN s.edited_content ELSE s.draft_content]

\* the text the Editor returns for the text it was given
Edited(content) == [content EXCEPT !.edits = 1]

edit_chapter(s, outcome) ==
    IF outcome # "ok"
    THEN [error |-> LLMFailure(outcome), last_node |-> "edit_chapter"]
    ELSE [edited_content |-> Edited(EditorInput(s).content),
          last_node |-> "edit_chapter"]

\* review_chapter with the force-accept test written `>` instead of `>=`
review_chapter_late_force(s, call) ==
    LET result == IF call.raised
                  THEN [empty |-> FALSE, passed |-> TRUE, score |-> 0,
                        critical |-> 0,
                        summary |-> [NoSummary EXCEPT !.skipped = TRUE],
                        issues |-> NoIssues]
                  ELSE [call.result EXCEPT
                           !.issues = IssuesOf(s.edited_content)]
        revision_count == s.revision_count + 1
        max_revisions == s.max_revisions
        final == IF ~result.passed /\ revision_count > max_revisions
                 THEN [result EXCEPT !.passed = TRUE,
                                     !.summary.forced = TRUE,
                                     !.summary.limit = max_revisions]
                 ELSE result
    IN  [review_result |-> final,
         revision_count |-> revision_count,
         last_node |-> "review_chapter"]

\* call: what reviewer.review_chapter did, return a result or raise LLMError
review_chapter(s, call) ==
    LET result == IF call.raised
                  THEN [empty |-> FALSE, passed |-> TRUE, score |-> 0,
                        critical |-> 0,
                        summary |-> [NoSummary EXCEPT !.skipped = TRUE],
                        issues |-> NoIssues]
                  ELSE [call.result EXCEPT
                           !.issues = IssuesOf(s.edited_content)]
        revision_count == s.revision_count + 1
        max_revisions == s.max_revisions
        passed == result.passed
        final == IF ~passed /\ revision_count >= max_revisions
                 THEN [result EXCEPT !.passed = TRUE,
                                     !.summary.forced = TRUE,
                                     !.summary.limit = max_revisions]
                 ELSE result
    IN  [review_result |-> final,
         revision_count |-> revision_count,
         last_node |-> "review_chapter"]

\* the row of a save_chapter that stores the count of re-edits, not of reviews
SavedChapter_reedits(s) ==
    [novel_id |-> s.novel_id,
     chapter_number |-> s.current_chapter,
     status |-> "reviewed",
     review_score |-> s.review_result.score,
     review_notes |-> s.review_result.summary,
     content |-> s.edited_content,
     revision_count |-> s.revision_count - 1]

\* a save_chapter that stores the chapter as a draft
SavedChapter_drafted(s) ==
    [novel_id |-> s.novel_id,
     chapter_number |-> s.current_chapter,
     status |-> "drafted",
     review_score |-> s.review_result.score,
     review_notes |-> s.review_result.summary,
     content |-> s.edited_content,
     revision_count |-> s.revision_count]

\* the row save_chapter writes (insert, or update in place of the same key)
SavedChapter(s) ==
    [novel_id |-> s.novel_id,
     chapter_number |-> s.current_chapter,
     status |-> "reviewed",
     review_score |-> s.review_result.score,
     review_notes |-> s.review_result.summary,
     content |-> s.edited_content,
     revision_count |-> s.revision_count]

save_chapter(s) == [last_node |-> "save_chapter"]

\* update_memory that also moves the chapter cursor
update_memory_moves_cursor(s, outcome) ==
    [chapters_written |-> s.chapters_written + 1,
     current_chapter |-> s.current_chapter + 1,
     last_node |-> "update_memory"]

\* update_memory that gives up when the MemoryManager fails
update_memory_fatal(s, outcome) ==
    IF outcome # "ok"
    THEN [error |-> <<"Memory update failed">>, should_stop |-> TRUE,
          last_node |-> "update_memory"]
    ELSE [chapters_written |-> s.chapters_written + 1,
          last_node |-> "update_memory"]

\* outcome: "ok", or "failed" when memory_mgr.update_memory raised (caught)
update_memory(s, outcome) ==
    [chapters_written |-> s.chapters_written + 1, last_node |-> "update_memory"]

\* outcome: "ok", or "failed" when memory_mgr.global_review raised (caught)
global_review(s, outcome) == [last_node |-> "global_review"]

\* advance_chapter that ignores the explicit list
advance_chapter_range_only(s) ==
    LET next_ch == s.current_chapter + 1 IN
    IF s.target_chapters > 0 /\ next_ch > s.target_chapters
    THEN [should_stop |-> TRUE, current_chapter |-> next_ch,
          last_node |-> "advance_chapter"]
    ELSE [current_chapter |-> next_ch, last_node |-> "advance_chapter"]

\* advance_chapter that rewinds the cursor when the run is complete
advance_chapter_rewind(s) ==
    IF s.chapter_list # << >> THEN
        LET idx == s.chapter_list_index + 1 IN
        IF idx >= Len(s.chapter_list)
        THEN [should_stop |-> TRUE, chapter_list_index |-> idx,
              current_chapter |-> s.chapter_list[1],
              last_node |-> "advance_chapter"]
        ELSE [current_chapter |-> s.chapter_list[idx + 1],
              chapter_list_index |-> idx,
              last_node |-> "advance_chapter"]
    ELSE
        LET next_ch == s.current_chapter + 1 IN
        IF s.target_chapters > 0 /\ next_ch > s.target_chapters
        THEN [should_stop |-> TRUE, current_chapter |-> 1,
              last_node |-> "advance_chapter"]
        ELSE [current_chapter |-> next_ch, last_node |-> "advance_chapter"]

\* advance_chapter that moves the cursor of a range run nowhere
advance_chapter_stuck(s) ==
    IF s.chapter_list # << >> THEN
        [chapter_list_index |-> s.chapter_list_index, last_node |-> "advance_chapter"]
    ELSE [current_chapter |-> s.current_chapter, last_node |-> "advance_chapter"]

advance_chapter(s) ==
    LET current == s.current_chapter
        target == s.target_chapters
        chapter_list == s.chapter_list
    IN  IF chapter_list # << >> THEN
            LET idx == s.chapter_list_index + 1 IN
            IF idx >= Len(chapter_list)
            THEN [should_stop |-> TRUE, chapter_list_index |-> idx,
                  last_node |-> "advance_chapter"]
            ELSE [current_chapter |-> chapter_list[idx + 1],
                  chapter_list_index |-> idx,
                  last_node |-> "advance_chapter"]
        ELSE
            LET next_ch == current + 1 IN
            IF target > 0 /\ next_ch > target
            THEN [should_stop |-> TRUE, current_chapter |-> next_ch,
                  last_node |-> "advance_chapter"]
            ELSE [current_chapter |-> next_ch, last_node |-> "advance_chapter"]

is_recoverable(error) ==
    \E i \in 1..Len(error) : Lower(error[i]) \in RecoverableKeywords

\* handle_error that wipes the error when it stops the run
handle_error_drops_error(s) ==
    IF is_recoverable(s.error) /\ s.retry_count < MAX_NODE_RETRIES
    THEN [error |-> NoError, retry_count |-> s.retry_count + 1,
          should_stop |-> FALSE]
    ELSE [error |-> NoError, should_stop |-> TRUE]

handle_error(s) ==
    IF is_recoverable(s.error) /\ s.retry_count < MAX_NODE_RETRIES
    THEN [error |-> NoError, retry_count |-> s.retry_count + 1,
          should_stop |-> FALSE]
    ELSE [should_stop |-> TRUE]

(***************************************************************************)
(* Conditional edges (workflow/conditions.py).                             *)
(***************************************************************************)
\* route_after_init that does not look at the error
route_after_init_ignores_error(s) ==
    IF s.mode \in {"new", "plan_only"} THEN "plan_novel"
    ELSE "load_chapter_context"

route_after_init(s) ==
    IF s.error # NoError THEN "handle_error"
    ELSE IF s.mode \in {"new", "plan_only"} THEN "plan_novel"
    ELSE "load_chapter_context"

route_after_plan(s) ==
    IF s.mode = "plan_only" THEN "__end__" ELSE "load_chapter_context"

\* route_after_review that gives up one revision early
route_after_review_early(s) ==
    IF s.review_result.passed THEN "save_chapter"
    ELSE IF s.revision_count + 1 >= s.max_revisions THEN "save_chapter"
    ELSE "edit_chapter"

route_after_review(s) ==
    IF s.review_result.passed THEN "save_chapter"
    ELSE IF s.revision_count >= s.max_revisions THEN "save_chapter"
    ELSE "edit_chapter"

\* route_after_memory_update keyed on the chapter number, not on the count
route_after_memory_update_by_number(s) ==
    IF s.current_chapter > 0
       /\ s.current_chapter % s.global_review_interval = 0
    THEN "global_review"
    ELSE "advance_chapter"

\* route_after_memory_update that fires one chapter early
route_after_memory_update_off_by_one(s) ==
    IF (s.chapters_written + 1) % s.global_review_interval = 0
    THEN "global_review"
    ELSE "advance_chapter"

route_after_memory_update(s) ==
    IF s.chapters_written > 0
       /\ s.chapters_written % s.global_review_interval = 0
    THEN "global_review"
    ELSE "advance_chapter"

\* route_after_advance that applies the target check to target_chapters = 0
route_after_advance_ignores_zero(s) ==
    IF s.should_stop THEN "__end__"
    ELSE IF s.current_chapter > s.target_chapters THEN "__end__"
    ELSE "load_chapter_context"

route_after_advance(s) ==
    IF s.should_stop THEN "__end__"
    ELSE IF s.target_chapters > 0 /\ s.current_chapter > s.target_chapters
    THEN "__end__"
    ELSE "load_chapter_context"

(***************************************************************************)
(* Initial states: the arguments of run_workflow, the settings, the store. *)
(***************************************************************************)
DEFAULT_TARGET == 10    \* run_workflow: target_chapters: int = 10

Lists == UNION {[1..n -> 1..MaxChapter] : n \in 1..MaxListLen}

RangeArgs ==
    [mode : {"continue"}, novel_id : {ExistingNovel, MissingNovel},
     genre : {""}, premise : {<< >>},
     target_chapters : 1..MaxTarget, chapter_list : {<< >>}]

ListArgs ==
    [mode : {"continue"}, novel_id : {ExistingNovel},
     genre : {""}, premise : {<< >>},
     target_chapters : {DEFAULT_TARGET}, chapter_list : Lists]

NewArgs ==
    [mode : {"new", "plan_only"}, novel_id : {0},
     genre : {"", "xuanhuan"}, premise : {<< >>, <<"p">>, <<"p", "q">>},
     target_chapters : 1..MaxTarget, chapter_list : {<< >>}]

BadArgs ==
    [mode : {"timeout", "bogus"}, novel_id : {0},
     genre : {"xuanhuan"}, premise : {<<"p", "q">>},
     target_chapters : {DEFAULT_TARGET}, chapter_list : {<< >>}]

Requests == RangeArgs \cup ListArgs \cup NewArgs \cup BadArgs

SettingsChoices ==
    [max_revisions : 1..MaxRevisions, global_review_interval : 1..MaxInterval]

\* the rows of chapters 1..k of the existing novel, each accepted at once
StoredChapters(k) ==
    {[novel_id |-> ExistingNovel, chapter_number |-> n, status |-> "reviewed",
      review_score |-> 8, review_notes |-> NoSummary, revision_count |-> 1,
      content |-> [chapter |-> n, edits |-> 1]]
        : n \in 1..k}

\* the outlines an existing novel was planned with: one for every chapter it
\* has and every chapter the request names
PlannedFor(a, k) ==
    IF a.mode # "continue" THEN {}
    ELSE IF a.chapter_list # << >> THEN 1..Max(k, SeqMax(a.chapter_list))
    ELSE 1..(k + a.target_chapters)

\* ChapterStatus, in the order of the lifecycle
ChapterStatuses == <<"planned", "drafted", "edited", "reviewed", "published">>

\* k stored chapters that carry the given status
StoredWithStatus(k, status) ==
    {[c EXCEPT !.status = status] : c \in StoredChapters(k)}

InitRunFull(a, cfg, k, rows, policy, mem, agents) ==
    /\ pc = "initialize"
    /\ llm = agents
    /\ state = InitialState(a)
    /\ settings = cfg
    /\ novels = {ExistingNovel}
    /\ chapters = rows
    /\ recursion_limit = RecursionLimit(a)
    /\ args = a
    /\ stored0 = k
    /\ reviewer = policy
    /\ steps = 0
    /\ reviews = 0
    /\ fails = 0
    /\ loaded = << >>
    /\ audits = << >>
    /\ raised_at = "none"
    /\ outlines = PlannedFor(a, k)
    /\ memory = mem
    /\ outline_src = "none"
    /\ comp = NoCall

\* a run in which any call of the Writer or the Editor may fail
InitRunWith(a, cfg, k, rows, policy, mem) ==
    InitRunFull(a, cfg, k, rows, policy, mem, "flaky")

\* a run in which the calls of the Writer and the Editor succeed
InitSteady(a, cfg, k, policy) ==
    InitRunFull(a, cfg, k, StoredChapters(k), policy, "ok", "up")

InitRun(a, cfg, k, policy, mem) ==
    InitRunWith(a, cfg, k, StoredChapters(k), policy, mem)

InitWith(a, cfg, k, policy) == InitRun(a, cfg, k, policy, "ok")

ContinueList(list) ==
    [mode |-> "continue", novel_id |-> ExistingNovel, genre |-> "",
     premise |-> << >>, target_chapters |-> DEFAULT_TARGET,
     chapter_list |-> list]

ContinueRange(n) ==
    [mode |-> "continue", novel_id |-> ExistingNovel, genre |-> "",
     premise |-> << >>, target_chapters |-> n, chapter_list |-> << >>]

NewNovel(n) ==
    [mode |-> "new", novel_id |-> 0, genre |-> "xuanhuan",
     premise |-> <<"p", "q">>, target_chapters |-> n, chapter_list |-> << >>]

\* the settings as shipped
DEFAULT_MAX_REVISIONS == 3
DEFAULT_REVIEW_INTERVAL == 5
DefaultSettings ==
    [max_revisions |-> DEFAULT_MAX_REVISIONS,
     global_review_interval |-> DEFAULT_REVIEW_INTERVAL]

\* any request, any settings within the bounds
InitGeneral ==
    \E a \in Requests, cfg \in SettingsChoices, k \in 0..MaxExisting :
        InitSteady(a, cfg, k, "any")

\* two chapters, any verdict of the Reviewer, and a Writer and an Editor
\* whose calls may fail
InitFlaky ==
    \E a \in {ContinueList(<<1, 2>>), ContinueRange(2), NewNovel(2)},
       k \in 0..1 :
        InitWith(a, [max_revisions |-> 2, global_review_interval |-> 1], k,
                 "any")

\* one chapter under a large revision budget
InitLongLoop ==
    InitWith(ContinueList(<<1>>),
             [max_revisions |-> LongRevisions, global_review_interval |-> 1],
             0, "any")

\* chapters 1 to 3 of a fresh novel, the Reviewer passing everything at 8
InitScenarioA ==
    \E a \in {NewNovel(3), ContinueRange(3), ContinueList(<<1, 2, 3>>)},
       cfg \in SettingsChoices \cup {DefaultSettings} :
        InitWith(a, cfg, 0, "pass8")

\* runs that write chapter 5 with a global review every 5 chapters
InitScenarioB ==
    \/ \E a \in {NewNovel(5), ContinueRange(5), ContinueList(<<1, 2, 3, 4, 5>>),
                 ContinueList(<<5>>)} :
          InitSteady(a, [DefaultSettings EXCEPT !.max_revisions = 1], 0, "any")
    \/ InitSteady(ContinueRange(1),
                  [DefaultSettings EXCEPT !.max_revisions = 1], 4, "any")

\* chapters 2, 4 and 6 of a novel that has none
InitScenarioC ==
    InitSteady(ContinueList(<<2, 4, 6>>), DefaultSettings, 0, "any")

\* a run without a target: target_chapters = 0, no outline planned ahead
InitUnbounded ==
    InitSteady(ContinueRange(0),
               [max_revisions |-> 1, global_review_interval |-> 1], 0, "pass8")

\* the Reviewer's LLM call fails on every review
InitOutage ==
    \E a \in {ContinueList(<<1>>), ContinueRange(1)} :
        InitWith(a, [max_revisions |-> MaxRevisions,
                     global_review_interval |-> 1], 0, "outage")

\* every call of the MemoryManager fails
InitMemoryDown ==
    \E a \in {ContinueList(<<1, 2>>), ContinueRange(2), NewNovel(2)} :
        InitRun(a, [max_revisions |-> 1, global_review_interval |-> 2],
                0, "pass8", "down")

\* chapter 1 is stored with any status; the run rewrites it or goes on from it
InitRewrite ==
    \E a \in {ContinueList(<<1>>), ContinueRange(1)},
       i \in DOMAIN ChapterStatuses :
        InitRunWith(a, [max_revisions |-> 1, global_review_interval |-> 1], 1,
                    StoredWithStatus(1, ChapterStatuses[i]), "pass8", "ok")

Init ==
    \/ InitGeneral
    \/ InitLongLoop
    \/ InitScenarioA
    \/ InitScenarioB
    \/ InitScenarioC
    \/ InitUnbounded
    \/ InitOutage
    \/ InitMemoryDown
    \/ InitRewrite
    \/ InitFlaky

(***************************************************************************)
(* Actions: one per node, plus the ways an exception leaves the graph.     *)
(***************************************************************************)
Terminal == {"__end__", "GraphRecursionError", "TypeError"}

Ghosts == <<reviews, fails, loaded, audits>>
Fixed == <<settings, recursion_limit, args, stored0, reviewer, memory,
          comp, llm>>
OutlineVars == <<outlines, outline_src>>

Runs(node) == pc = node /\ steps < recursion_limit

Initialize ==
    /\ Runs("initialize")
    /\ state' = Merge(state, initialize(state))
    /\ pc' = route_after_init(state')
    /\ steps' = steps + 1
    /\ UNCHANGED <<novels, chapters, Fixed, Ghosts, raised_at, OutlineVars>>

PlanNovel ==
    /\ Runs("plan_novel")
    /\ \E outcome \in {"ok"} \cup LLMCauses :
          /\ state' = Merge(state, plan_novel(state, outcome))
          /\ novels' = IF outcome = "ok" THEN novels \cup {CreatedNovel}
                       ELSE novels
          /\ outlines' = IF outcome = "ok" THEN PlannedOutlines(state)
                         ELSE outlines
    /\ pc' = route_after_plan(state')
    /\ steps' = steps + 1
    /\ UNCHANGED <<chapters, Fixed, Ghosts, raised_at, outline_src>>

\* the ways load_chapter_context can come by an outline in run-state s
AvailableSources(s) ==
    IF s.current_chapter \in outlines THEN {"stored"}
    ELSE IF get_novel(s.novel_id) THEN {"expanded", "placeholder"}
    ELSE {"placeholder"}

LoadChapterContext ==
    /\ Runs("load_chapter_context")
    /\ \E src \in AvailableSources(state) :
          /\ state' = Merge(state, load_chapter_context(state, src))
          /\ outlines' = IF src = "expanded"
                         THEN outlines \cup OutlineBatch(state.current_chapter)
                         ELSE outlines
          /\ outline_src' = src
    /\ pc' = "retrieve_memory"
    /\ steps' = steps + 1
    /\ loaded' = Append(loaded, state.current_chapter)
    /\ reviews' = 0
    /\ fails' = 0
    /\ UNCHANGED <<novels, chapters, Fixed, audits, raised_at>>

RetrieveMemory ==
    /\ Runs("retrieve_memory")
    /\ state' = Merge(state, retrieve_memory(state))
    /\ pc' = "write_chapter"
    /\ steps' = steps + 1
    /\ UNCHANGED <<novels, chapters, Fixed, Ghosts, raised_at, OutlineVars>>

\* what a call of the Writer or the Editor can do in this run
AgentOutcomes == IF llm = "up" THEN {"ok"} ELSE {"ok"} \cup LLMCauses

WriteChapter ==
    /\ Runs("write_chapter")
    /\ \E outcome \in AgentOutcomes :
          state' = Merge(state, write_chapter(state, outcome))
    /\ pc' = "edit_chapter"
    /\ steps' = steps + 1
    /\ UNCHANGED <<novels, chapters, Fixed, Ghosts, raised_at, OutlineVars>>

\* The call passes on_event=..., a keyword WriterAgent.write_chapter does
\* not declare: Python raises TypeError, which `except LLMError` lets through.
WriteChapterRaises ==
    /\ Runs("write_chapter")
    /\ pc' = "TypeError"
    /\ raised_at' = "write_chapter"
    /\ steps' = steps + 1
    /\ UNCHANGED <<state, novels, chapters, Fixed, Ghosts, OutlineVars>>

EditChapter ==
    /\ Runs("edit_chapter")
    /\ \E outcome \in AgentOutcomes :
          state' = Merge(state, edit_chapter(state, outcome))
    /\ pc' = "review_chapter"
    /\ steps' = steps + 1
    /\ UNCHANGED <<novels, chapters, Fixed, Ghosts, raised_at, OutlineVars>>

ReviewChapter ==
    /\ Runs("review_chapter")
    /\ \E raw \in ReviewerOutputs(reviewer) :
          LET call == [raised |-> FALSE,
                       result |-> ReviewerAgent_review_chapter(raw)] IN
          /\ state' = Merge(state, review_chapter(state, call))
          /\ fails' = IF call.result.passed THEN fails ELSE fails + 1
    /\ reviews' = reviews + 1
    /\ pc' = route_after_review(state')
    /\ steps' = steps + 1
    /\ UNCHANGED <<novels, chapters, Fixed, loaded, audits, raised_at, OutlineVars>>

SaveChapter ==
    /\ Runs("save_chapter")
    /\ chapters' = (chapters \ get_chapter(state.novel_id, state.current_chapter))
                       \cup {SavedChapter(state)}
    /\ state' = Merge(state, save_chapter(state))
    /\ pc' = "update_memory"
    /\ steps' = steps + 1
    /\ UNCHANGED <<novels, Fixed, Ghosts, raised_at, OutlineVars>>

\* what a call of the MemoryManager does in this run
MemoryOutcome == IF memory = "down" THEN "failed" ELSE "ok"

UpdateMemory ==
    /\ Runs("update_memory")
    /\ state' = Merge(state, update_memory(state, MemoryOutcome))
    /\ pc' = route_after_memory_update(state')
    /\ steps' = steps + 1
    /\ UNCHANGED <<novels, chapters, Fixed, Ghosts, raised_at, OutlineVars>>

GlobalReview ==
    /\ Runs("global_review")
    /\ state' = Merge(state, global_review(state, MemoryOutcome))
    /\ pc' = "advance_chapter"
    /\ steps' = steps + 1
    /\ audits' = Append(audits, state.current_chapter)
    /\ UNCHANGED <<novels, chapters, Fixed, reviews, fails, loaded, raised_at, OutlineVars>>

AdvanceChapter ==
    /\ Runs("advance_chapter")
    /\ state' = Merge(state, advance_chapter(state))
    /\ pc' = route_after_advance(state')
    /\ steps' = steps + 1
    /\ UNCHANGED <<novels, chapters, Fixed, Ghosts, raised_at, OutlineVars>>

HandleError ==
    /\ Runs("handle_error")
    /\ state' = Merge(state, handle_error(state))
    /\ pc' = "__end__"
    /\ steps' = steps + 1
    /\ UNCHANGED <<novels, chapters, Fixed, Ghosts, raised_at, OutlineVars>>

\* recursion_limit nodes have run and the graph has not reached END
StepLimit ==
    /\ pc \notin Terminal
    /\ steps >= recursion_limit
    /\ pc' = "GraphRecursionError"
    /\ raised_at' = pc
    /\ UNCHANGED <<state, novels, chapters, steps, Fixed, Ghosts, OutlineVars>>

Next ==
    \/ Initialize
    \/ PlanNovel
    \/ LoadChapterContext
    \/ RetrieveMemory
    \/ WriteChapter
    \/ WriteChapterRaises
    \/ EditChapter
    \/ ReviewChapter
    \/ SaveChapter
    \/ UpdateMemory
    \/ GlobalReview
    \/ AdvanceChapter
    \/ HandleError
    \/ StepLimit

Spec == Init /\ [][Next]_vars

\* the driver keeps running nodes until the graph ends or raises
FairSpec == Spec /\ WF_vars(Next)

TypeOK ==
    /\ pc \in Terminal \cup {"initialize", "plan_novel", "load_chapter_context",
           "retrieve_memory", "write_chapter", "edit_chapter", "review_chapter",
           "save_chapter", "update_memory", "global_review", "advance_chapter",
           "handle_error"}
    /\ steps \in 0..recursion_limit
    /\ state.revision_count \in Nat

(***************************************************************************)
(* The edit/review loop.                                                   *)
(***************************************************************************)
CurrentRow == get_chapter(state.novel_id, state.current_chapter)

\* C1 (as stated): a chapter whose every review was reported not passed
\* reaches SAVE after exactly max_revisions + 1 review passes, force-accepted.
C1_ForcedAfterMaxPlusOne ==
    (pc = "save_chapter" /\ fails = reviews) =>
        /\ reviews = settings.max_revisions + 1
        /\ state.review_result.passed
        /\ state.review_result.summary.forced

\* C1 (amended): a chapter whose every review was reported not passed never
\* gets more than max_revisions review passes; it reaches SAVE after exactly
\* max_revisions of them with review_result.passed = true and the
\* forced-accept annotation, and the row SAVE stores carries that annotation.
C1_ForcedAfterMax ==
    /\ fails = reviews => reviews <= settings.max_revisions
    /\ (pc = "save_chapter" /\ fails = reviews) =>
           /\ reviews = settings.max_revisions
           /\ state.review_result.passed
           /\ state.review_result.summary.forced
           /\ state.review_result.summary.limit = settings.max_revisions
    /\ (pc = "update_memory" /\ fails = reviews) =>
           /\ CurrentRow # {}
           /\ \A c \in CurrentRow :
                 /\ c.review_notes.forced
                 /\ c.revision_count = settings.max_revisions

C1_Witness ==
    /\ pc = "update_memory"
    /\ fails = reviews
    /\ reviews = 2
    /\ settings.max_revisions = 2
    /\ \E c \in CurrentRow : c.review_notes.forced

\* C2: once EDIT has run for a chapter the run does not stop before SAVE is
\* reached for that chapter.
C2_EditReachesSave ==
    pc \in Terminal =>
        ~ \/ state.last_node = "edit_chapter"
          \/ state.last_node = "review_chapter" /\ raised_at = "edit_chapter"

C4_RouteAfterReview ==
    [][pc = "review_chapter" =>
          /\ pc' = "save_chapter" => state'.review_result.passed
          /\ state'.review_result.summary.forced =>
                 state'.revision_count >= state'.max_revisions
          /\ (fails' > fails /\ state'.revision_count < state'.max_revisions) =>
                 /\ pc' = "edit_chapter"
                 /\ ~state'.review_result.passed]_vars

C4_Witness ==
    /\ pc = "save_chapter"
    /\ state.review_result.summary.forced
    /\ state.revision_count = 2
    /\ fails = 2

\* C5: revision_count never exceeds max_revisions.
C5_RevisionCountBounded ==
    /\ state.revision_count <= settings.max_revisions
    /\ pc # "initialize" => state.max_revisions = settings.max_revisions

C5_Witness ==
    /\ pc = "review_chapter"
    /\ state.revision_count = 0
    /\ Len(loaded) = 2
    /\ \E c \in chapters : c.revision_count = settings.max_revisions
                            /\ c.review_notes.forced

(***************************************************************************)
(* The chapter cursor and the scenarios.                                   *)
(***************************************************************************)
IsPrefix(s, q) == Len(s) <= Len(q) /\ \A i \in 1..Len(s) : s[i] = q[i]
IsSorted(s) == \A i \in 1..(Len(s) - 1) : s[i] <= s[i + 1]
Count(s, x) == Cardinality({i \in 1..Len(s) : s[i] = x})

\* the rows of the novel the run writes to
RunRows == {c \in chapters : c.novel_id = state.novel_id}

\* the chapters a run is asked for, in order
RequestedChapters ==
    IF args.chapter_list # << >> THEN args.chapter_list
    ELSE IF args.mode = "continue"
    THEN [i \in 1..args.target_chapters |-> stored0 + i]
    ELSE [i \in 1..args.target_chapters |-> i]

\* C6 (Scenario A): chapters 1 to 3 of a fresh novel, every review passed at
\* score 8: the run ends with exactly 3 chapter rows, each with
\* revision_count = 1, and chapters_written = 3.
ScenarioA ==
    /\ reviewer = "pass8"
    /\ stored0 = 0
    /\ args.mode \in {"new", "continue"}
    /\ RequestedChapters = <<1, 2, 3>>

C7_AuditOnChapterFive ==
    (settings.global_review_interval = 5 /\ pc = "advance_chapter"
        /\ state.current_chapter = 5) =>
            /\ Count(audits, 5) = 1
            /\ state.last_node = "global_review"

\* C7 (amended): with global_review_interval = 5, GLOBAL_REVIEW runs only
\* right after an UPDATE_MEMORY that brought the count of chapters written in
\* this run to a multiple of 5.  Chapter 5 reaches ADVANCE after exactly one
\* GLOBAL_REVIEW of it when it is such a chapter of the run (the fifth one
\* written), and after none when it is not.
C7_AuditOnFifthWritten ==
    settings.global_review_interval = 5 =>
        /\ pc = "global_review" =>
               /\ state.last_node = "update_memory"
               /\ state.chapters_written > 0
               /\ state.chapters_written % 5 = 0
        /\ (pc = "advance_chapter" /\ state.current_chapter = 5) =>
               IF state.chapters_written % 5 = 0
               THEN Count(audits, 5) = 1
                    /\ state.last_node = "global_review"
               ELSE Count(audits, 5) = 0
                    /\ state.last_node = "update_memory"

C7_Witness ==
    /\ settings.global_review_interval = 5
    /\ pc = "advance_chapter"
    /\ state.current_chapter = 5
    /\ state.chapters_written = 5
    /\ audits = <<5>>

\* C8 (Scenario C): chapter_list = [2,4,6] on a novel without chapters: the
\* run loads chapters 2, 4, 6 in that order, each once, and when it ends it
\* has written exactly these three.
ScenarioC ==
    /\ args.mode = "continue"
    /\ args.chapter_list = <<2, 4, 6>>
    /\ stored0 = 0

C9_AdvanceNeverDecreases ==
    [][pc = "advance_chapter" =>
          state'.current_chapter >= state.current_chapter]_vars

\* C9 (amended): no ADVANCE step lowers current_chapter when the cursor is a
\* contiguous range or an explicit chapter list given in non-decreasing order.
C9_AdvanceNeverDecreasesSorted ==
    [][(pc = "advance_chapter" /\ IsSorted(state.chapter_list)) =>
          state'.current_chapter >= state.current_chapter]_vars

C9_Witness ==
    /\ state.last_node = "advance_chapter"
    /\ state.chapter_list = <<1, 2>>
    /\ state.current_chapter = 2
    /\ pc = "load_chapter_context"

\* C10 (as stated): only ADVANCE changes current_chapter.
C10_OnlyAdvanceMovesCursor ==
    [][pc # "advance_chapter" =>
          state'.current_chapter = state.current_chapter]_vars

\* C10 (amended): INITIALIZE sets current_chapter and after it only ADVANCE
\* changes it: every other stage leaves current_chapter as it found it.
C10_OnlyInitAndAdvanceMoveCursor ==
    [][pc \notin {"initialize", "advance_chapter"} =>
          state'.current_chapter = state.current_chapter]_vars

C10_Witness ==
    /\ pc = "__end__"
    /\ state.last_node = "advance_chapter"
    /\ state.current_chapter = 3
    /\ state.chapters_written = 2
    /\ audits # << >>

(***************************************************************************)
(* Stage by stage: what a stage leaves behind and where it hands over.     *)
(***************************************************************************)
\* this step is the execution of node
Ran(node) == pc = node /\ steps' = steps + 1

\* C11: every completion of LOAD_CHAPTER_CONTEXT leaves revision_count = 0,
\* whether the outline was stored, came from on-demand expansion or is a
\* placeholder.
C11_LoadResetsRevisionCount ==
    /\ [][Ran("load_chapter_context") =>
             /\ outline_src' \in OutlineSources
             /\ state'.revision_count = 0
             /\ pc' = "retrieve_memory"]_vars
    /\ [](state.last_node = "load_chapter_context" => state.revision_count = 0)

C11_Witness ==
    /\ pc = "retrieve_memory"
    /\ outline_src = "placeholder"
    /\ Len(loaded) = 2
    /\ state.revision_count = 0
    /\ \E c \in RunRows : c.chapter_number = loaded[1] /\ c.revision_count = 1

(***************************************************************************)
(* Errors.                                                                 *)
(***************************************************************************)
\* C12: a Writer or Editor call that fails hands the run over to
\* HANDLE_ERROR, the error classifier, which has the stage run again or
\* stops the run.
C12_FailedCallClassified ==
    [][((Ran("write_chapter") \/ Ran("edit_chapter"))
            /\ state.error = NoError /\ state'.error # NoError) =>
          pc' = "handle_error"]_vars

\* C13: HANDLE_ERROR on a recoverable error below the retry cap clears the
\* error, increments retry_count, and the run goes on to another stage.
C13_RecoverableResumes ==
    [][(Ran("handle_error") /\ is_recoverable(state.error)
            /\ state.retry_count < MAX_NODE_RETRIES) =>
          /\ state'.error = NoError
          /\ state'.retry_count = state.retry_count + 1
          /\ pc' \notin Terminal]_vars

\* a run that stopped because a stage failed: an exception left the graph at
\* a stage, or the run ended through HANDLE_ERROR
AbnormalStop ==
    \/ pc = "TypeError"
    \/ pc = "__end__" /\ state.last_node = "initialize"

FailedStage == IF pc = "TypeError" THEN raised_at ELSE "initialize"

\* C14: a run that stopped abnormally ends in a run-state with a non-empty
\* error whose last_node names the stage that failed.
C14_AbnormalStopExposesError ==
    AbnormalStop =>
        /\ state.error # NoError
        /\ state.last_node = FailedStage

\* error messages and retry counts HANDLE_ERROR can be given
SampleErrors ==
    {<<"Novel", "not found">>, <<"Unknown mode:", "timeout">>,
     <<"Premise is required">>} \cup {LLMFailure(c) : c \in LLMCauses}

\* C15: on a fatal error, or a recoverable one with the retry cap used up,
\* HANDLE_ERROR sets should_stop and leaves the error as it is, and the run
\* ends with that non-empty error in its run-state.
C15_FatalErrorPreserved ==
    /\ [][(Ran("handle_error")
             /\ ~(is_recoverable(state.error)
                    /\ state.retry_count < MAX_NODE_RETRIES)) =>
             /\ state'.should_stop
             /\ state.error # NoError
             /\ state'.error = state.error
             /\ pc' = "__end__"]_vars
    /\ [](\A e \in SampleErrors, r \in 0..(MAX_NODE_RETRIES + 1) :
             (~is_recoverable(e) \/ r >= MAX_NODE_RETRIES) =>
                 handle_error([error |-> e, retry_count |-> r])
                     = [should_stop |-> TRUE])
    /\ []((pc = "__end__" /\ state.last_node = "initialize"
              /\ state.should_stop) => state.error # NoError)

C15_Witness ==
    /\ pc = "__end__"
    /\ state.should_stop
    /\ state.error = <<"Novel", "not found">>
    /\ state.last_node = "initialize"

\* the request lacks an input INITIALIZE requires
MissingInput(a) ==
    \/ a.mode \in {"new", "plan_only"} /\ (a.genre = "" \/ a.premise = << >>)
    \/ a.mode = "continue" /\ a.novel_id # ExistingNovel
    \/ a.mode \notin {"new", "plan_only", "continue"}

\* C16: a run whose request lacks a required input goes from INITIALIZE to
\* HANDLE_ERROR and ends there: no PLAN, no chapter stage, nothing persisted.
C16_ValidationStopsRun ==
    MissingInput(args) =>
        /\ pc \in {"initialize", "handle_error", "__end__"}
        /\ pc # "initialize" => state.last_node = "initialize"
        /\ pc = "__end__" => steps = 2
        /\ loaded = << >>
        /\ chapters = StoredChapters(stored0)
        /\ novels = {ExistingNovel}
        /\ outlines = PlannedFor(args, stored0)

C16_Witness ==
    /\ pc = "__end__"
    /\ args.mode = "new"
    /\ args.genre = ""
    /\ steps = 2
    /\ state.should_stop
    /\ chapters = StoredChapters(stored0)

\* C17: a review pass whose Reviewer call fails is treated as passed, with
\* the skipped-review annotation, and hands the chapter to SAVE.
C17_OutageFailsOpen ==
    [][(Ran("review_chapter") /\ reviewer = "outage") =>
          /\ pc' = "save_chapter"
          /\ state'.review_result.passed
          /\ state'.review_result.summary.skipped]_vars

\* C18: when the MemoryManager fails, UPDATE_MEMORY still counts the chapter
\* and hands over to GLOBAL_REVIEW or ADVANCE, GLOBAL_REVIEW still hands over
\* to ADVANCE, and neither touches error or should_stop.
C18_MemoryFailuresSwallowed ==
    /\ [][(Ran("update_memory") /\ memory = "down") =>
             /\ state'.chapters_written = state.chapters_written + 1
             /\ state'.error = state.error
             /\ state'.should_stop = state.should_stop
             /\ state'.last_node = "update_memory"
             /\ pc' \in {"global_review", "advance_chapter"}]_vars
    /\ [][(Ran("global_review") /\ memory = "down") =>
             /\ state'.chapters_written = state.chapters_written
             /\ state'.error = state.error
             /\ state'.should_stop = state.should_stop
             /\ state'.last_node = "global_review"
             /\ pc' = "advance_chapter"]_vars

C18_Witness ==
    /\ memory = "down"
    /\ pc = "advance_chapter"
    /\ state.last_node = "global_review"
    /\ state.chapters_written = 2
    /\ state.error = NoError
    /\ ~state.should_stop

\* C19: after UPDATE_MEMORY comes GLOBAL_REVIEW exactly when chapters_written,
\* as incremented by that stage, is a positive multiple of
\* global_review_interval, and ADVANCE otherwise; GLOBAL_REVIEW is entered
\* from nowhere else.
C19_GlobalReviewOnMultiples ==
    /\ [][Ran("update_memory") =>
             /\ state'.chapters_written = state.chapters_written + 1
             /\ IF state'.chapters_written > 0
                   /\ state'.chapters_written % state'.global_review_interval = 0
                THEN pc' = "global_review"
                ELSE pc' = "advance_chapter"]_vars
    /\ [][(pc' = "global_review" /\ pc # "global_review") =>
             pc = "update_memory"]_vars

C19_Witness ==
    /\ pc = "global_review"
    /\ state.global_review_interval = 5
    /\ state.chapters_written = 5
    /\ audits = << >>

\* C20: after ADVANCE the run ends exactly when the explicit list is
\* exhausted or the next chapter number exceeds a positive target_chapters,
\* which is when should_stop is set or target_chapters > 0 and
\* current_chapter > target_chapters; otherwise LOAD_CHAPTER_CONTEXT is next,
\* and with target_chapters = 0 and no list it always is.
C20_RouteAfterAdvance ==
    [][Ran("advance_chapter") =>
          LET list == state.chapter_list
              exhausted == list # << >>
                           /\ state.chapter_list_index + 1 >= Len(list)
              exceeds == list = << >> /\ state.target_chapters > 0
                         /\ state.current_chapter + 1 > state.target_chapters
          IN  /\ pc' \in {"__end__", "load_chapter_context"}
              /\ pc' = "__end__" <=> (exhausted \/ exceeds)
              /\ pc' = "__end__" <=>
                     \/ state'.should_stop
                     \/ state'.target_chapters > 0
                        /\ state'.current_chapter > state'.target_chapters
              /\ (state.target_chapters = 0 /\ list = << >>) =>
                     pc' = "load_chapter_context"]_vars

C20_Witness ==
    /\ pc = "load_chapter_context"
    /\ state.last_node = "advance_chapter"
    /\ state.target_chapters = 0
    /\ state.current_chapter = 3
    /\ state.chapters_written = 2

(***************************************************************************)
(* Continuing a novel.                                                     *)
(***************************************************************************)
\* a continue run over a range: an existing novel, no list, n > 0 chapters
ContinueRangeRun ==
    /\ args.mode = "continue"
    /\ args.novel_id = ExistingNovel
    /\ args.chapter_list = << >>
    /\ args.target_chapters > 0

ShortLen == 10          \* lengths of a section: none, short, medium, long
MidLen == 30
LongLen == 68
SmallBudget == 40       \* settings.context_max_chars is one of the budgets
LargeBudget == 69

MIN_CUT_ROOM == 50      \* memory_retriever.py: if remaining > 50
ELLIPSIS_LEN == 3       \* memory_retriever.py: section[:remaining - 3] + "..."
SEPARATOR_LEN == 2      \* memory_retriever.py: len(section) + 2, "\n\n"

NumSections == 5
NEWLINE == <<0, 0>>
DOT == <<0, 1>>
Separator == [i \in 1..SEPARATOR_LEN |-> NEWLINE]
Ellipsis == [i \in 1..ELLIPSIS_LEN |-> DOT]

Section(k, n) == [i \in 1..n |-> <<k, i>>]

\* the sections list built with the world settings first
Sections_world_first(lens) ==
    SelectSeq([k \in 1..NumSections |->
                  Section(NumSections + 1 - k, lens[NumSections + 1 - k])],
              LAMBDA s : s # << >>)

\* the sections list of assemble_context: a section is appended only when
\* the store has data for it
Sections(lens) ==
    SelectSeq([k \in 1..NumSections |-> Section(k, lens[k])],
              LAMBDA s : s # << >>)

\* "\n\n".join(sections)
RECURSIVE Join(_)
Join(sections) ==
    IF sections = << >> THEN << >>
    ELSE IF Len(sections) = 1 THEN sections[1]
    ELSE sections[1] \o Separator \o Join(Tail(sections))

\* str.strip(): leading and trailing whitespace removed
RECURSIVE strip(_)
strip(text) ==
    IF text = << >> THEN text
    ELSE IF text[1] = NEWLINE THEN strip(Tail(text))
    ELSE IF text[Len(text)] = NEWLINE
         THEN strip(SubSeq(text, 1, Len(text) - 1))
    ELSE text

\* section[:n]
Slice(section, n) ==
    IF n >= Len(section) THEN section
    ELSE IF n >= 0 THEN SubSeq(section, 1, n)
    ELSE SubSeq(section, 1, Max(0, Len(section) + n))

\* the loop of _trim_context, from the given sections on
RECURSIVE TrimLoop(_, _, _)
TrimLoop(sections, result, max_chars) ==
    IF sections = << >> THEN result
    ELSE LET section == Head(sections)
         IN  IF Len(result) + Len(section) + SEPARATOR_LEN <= max_chars
             THEN TrimLoop(Tail(sections), result \o section \o Separator,
                           max_chars)
             ELSE LET remaining == max_chars - Len(result)
                  IN  IF remaining > MIN_CUT_ROOM
                      THEN result \o Slice(section, remaining - ELLIPSIS_LEN)
                                  \o Ellipsis
                      ELSE result

\* the loop going on to later sections after one that does not fit
RECURSIVE TrimLoopNoBreak(_, _, _)
TrimLoopNoBreak(sections, result, max_chars) ==
    IF sections = << >> THEN result
    ELSE LET section == Head(sections)
         IN  IF Len(result) + Len(section) + SEPARATOR_LEN <= max_chars
             THEN TrimLoopNoBreak(Tail(sections),
                                  result \o section \o Separator, max_chars)
             ELSE TrimLoopNoBreak(Tail(sections), result, max_chars)

trim_context_no_break(sections, max_chars) ==
    strip(TrimLoopNoBreak(sections, << >>, max_chars))

\* MemoryRetriever._trim_context
trim_context(sections, max_chars) ==
    strip(TrimLoop(sections, << >>, max_chars))

\* assemble_context that returns the joined sections whatever their length
assemble_context_untrimmed(lens, max_chars) == Join(Sections(lens))

\* MemoryRetriever.assemble_context and assemble_context_async, from the
\* lengths of the five sections (0: no data for the section)
assemble_context(lens, max_chars) ==
    LET sections == Sections(lens)
        full_context == Join(sections)
    IN  IF Len(full_context) > max_chars
        THEN trim_context(sections, max_chars)
        ELSE full_context

SectionLens == {0, ShortLen, MidLen, LongLen}
Budgets == {SmallBudget, LargeBudget}

PipelineVars ==
    <<pc, state, settings, novels, chapters, recursion_limit, steps, args,
      stored0, reviewer, reviews, fails, loaded, audits, raised_at, outlines,
      memory, outline_src, llm>>

\* no run of the pipeline is in progress
Idle ==
    /\ pc = "__end__"
    /\ state = InitialState(ContinueRange(1))
    /\ settings = DefaultSettings
    /\ novels = {ExistingNovel}
    /\ chapters = {}
    /\ recursion_limit = MIN_RECURSION_LIMIT
    /\ args = ContinueRange(1)
    /\ stored0 = 0
    /\ reviewer = "pass8"
    /\ steps = 0
    /\ reviews = 0
    /\ fails = 0
    /\ loaded = << >>
    /\ audits = << >>
    /\ raised_at = "none"
    /\ outlines = {}
    /\ memory = "ok"
    /\ outline_src = "none"
    /\ llm = "up"

(***************************************************************************)
(* get_previous_chapter_ending.  The store is given by the length of the   *)
(* content of every chapter (0: no row, or a row without content); the     *)
(* i-th character of the content of chapter c is <<c, i>>.                 *)
(***************************************************************************)
MaxPrev == 3            \* chapters 1..MaxPrev may be stored
BriefLen == 2           \* lengths of a stored content: none, brief, full
FullLen == 5
CharLimit == 3          \* the char_limit argument

Content_of(lens, c) == [i \in 1..lens[c] |-> <<c, i>>]

\* content[-n:] for n > 0
Ending(content, n) ==
    IF Len(content) <= n THEN content
    ELSE SubSeq(content, Len(content) - n + 1, Len(content))

\* MemoryRetriever.get_previous_chapter_ending; lens stands for the store
get_previous_chapter_ending(lens, current_chapter_number, char_limit) ==
    IF current_chapter_number <= 1 THEN << >>
    ELSE LET prev == current_chapter_number - 1
             content == Content_of(lens, prev)
             earlier == {c \in DOMAIN lens :
                            c < current_chapter_number /\ lens[c] > 0}
         IN  IF prev \in DOMAIN lens /\ content # << >>
             THEN IF Len(content) <= char_limit THEN content
                  ELSE Ending(content, char_limit)
             ELSE << >>

EndingInit ==
    \E lens \in [1..MaxPrev -> {0, BriefLen, FullLen}],
       n \in 1..(MaxPrev + 1) :
        /\ Idle
        /\ comp = [fn |-> "get_previous_chapter_ending", lens |-> lens,
                   current_chapter_number |-> n, char_limit |-> CharLimit,
                   done |-> FALSE, result |-> << >>]

GetPreviousChapterEnding ==
    /\ comp.fn = "get_previous_chapter_ending"
    /\ ~comp.done
    /\ comp' = [comp EXCEPT
                   !.done = TRUE,
                   !.result = get_previous_chapter_ending(
                                  comp.lens, comp.current_chapter_number,
                                  comp.char_limit)]
    /\ UNCHANGED PipelineVars

AssembleInit ==
    \E lens \in [1..NumSections -> SectionLens], max_chars \in Budgets :
        /\ Idle
        /\ comp = [fn |-> "assemble_context", lens |-> lens,
                   max_chars |-> max_chars, done |-> FALSE, result |-> << >>]

AssembleContext ==
    /\ comp.fn = "assemble_context"
    /\ ~comp.done
    /\ comp' = [comp EXCEPT !.done = TRUE,
                            !.result = assemble_context(comp.lens,
                                                        comp.max_chars)]
    /\ UNCHANGED PipelineVars

AssemblerInit == AssembleInit \/ EndingInit

AssemblerNext ==
    \/ AssembleContext
    \/ GetPreviousChapterEnding

AssemblerSpec == AssemblerInit /\ [][AssemblerNext]_vars

Assembled == comp.fn = "assemble_context" /\ comp.done
Truncates == Len(Join(Sections(comp.lens))) > comp.max_chars
\* the characters of section k in the output, in the order they appear
Kept(k) == SelectSeq(comp.result, LAMBDA c : c[1] = k)

\* C22: whatever the sections hold, the output of the Context Assembler is at
\* most context_max_chars characters long.
C22_OutputWithinBudget ==
    Assembled => Len(comp.result) <= comp.max_chars

\* a truncated output that fills the budget to the last character
C22_Witness ==
    /\ Assembled /\ Truncates
    /\ Len(comp.result) = comp.max_chars
    /\ comp.result[Len(comp.result)] = DOT

Recent == Section(1, comp.lens[1])

\* C23 (as stated): whenever the Context Assembler truncates and the
\* recent-summary section is non-empty, the output contains the entire
\* recent-summary section.
C23_RecentRetained ==
    (Assembled /\ Truncates /\ Recent # << >>) => Kept(1) = Recent

\* C23 (amended): whenever the Context Assembler truncates and the
\* recent-summary section is non-empty and fits in the budget together with
\* its separator, the output starts with the entire recent-summary section.
C23_RecentRetainedWhenItFits ==
    (/\ Assembled /\ Truncates /\ Recent # << >>
     /\ Len(Recent) + SEPARATOR_LEN <= comp.max_chars) =>
        /\ Kept(1) = Recent
        /\ IsPrefix(Recent, comp.result)

\* a truncation that cuts a later section and keeps the recent summaries
C23_Witness ==
    /\ Assembled /\ Truncates
    /\ comp.lens[1] = ShortLen
    /\ Kept(1) = Recent
    /\ Kept(2) # << >> /\ Kept(2) # Section(2, comp.lens[2])

\* the sections up to section k, and what joining them takes
SectionsUpTo(k) ==
    Sections([j \in 1..NumSections |-> IF j <= k THEN comp.lens[j] ELSE 0])
JoinedLen(k) == Len(Join(SectionsUpTo(k)))
Present == {k \in 1..NumSections : comp.lens[k] > 0}
\* the output without the line feeds and full stops the assembler added
Content == SelectSeq(comp.result, LAMBDA c : c[1] # 0)
\* sections below p whole, a proper prefix of section p, nothing after it,
\* all in priority order
WholeThenPrefix(p) ==
    /\ \A k \in Present : k < p => Kept(k) = Section(k, comp.lens[k])
    /\ IsPrefix(Kept(p), Section(p, comp.lens[p]))
    /\ Kept(p) # Section(p, comp.lens[p])
    /\ \A k \in Present : k > p => Kept(k) = << >>
    /\ Content = Kept(1) \o Kept(2) \o Kept(3) \o Kept(4) \o Kept(5)

Used(p) ==
    IF SectionsUpTo(p - 1) = << >> THEN 0
    ELSE JoinedLen(p - 1) + SEPARATOR_LEN

EarlierWithContent ==
    {c \in DOMAIN comp.lens :
        c < comp.current_chapter_number /\ comp.lens[c] > 0}

\* C25: previous_chapter_ending for chapter N returns the trailing char_limit
\* characters of the nearest chapter below N that has content, and the empty
\* string for chapter 1.
C25_EndingOfNearestEarlier ==
    (comp.fn = "get_previous_chapter_ending" /\ comp.done) =>
        IF comp.current_chapter_number <= 1 \/ EarlierWithContent = {}
        THEN comp.result = << >>
        ELSE LET nearest == CHOOSE c \in EarlierWithContent :
                                \A d \in EarlierWithContent : d <= c
             IN  comp.result = Ending(Content_of(comp.lens, nearest),
                                      comp.char_limit)

(***************************************************************************)
(* On-demand outline expansion: load_chapter_context (workflow/graph.py)   *)
(* called on its own, one step per pass of its batch loop.  The outline    *)
(* store is the sequence of the rows of the novel in the order they were   *)
(* inserted; create_outline is a plain INSERT and the index on             *)
(* (novel_id, chapter_number) is not unique (models/database.py).          *)
(***************************************************************************)
ChaptersPerVolume == 3  \* novel.chapters_per_volume
MaxNeeded == 4          \* the chapter LOAD is called for is in 1..MaxNeeded
MaxLoads == 2           \* calls of load_chapter_context in a row
MaxPasses == 6          \* passes of the batch loop the model follows

Beat == <<"beat">>
\* the override of the batch size in the run-state; 0: none given
BatchSizes == {0, 1, 2, -1}

\* the rows get_outline(novel_id, n) selects from, in insertion order
OutlineRows(rows, n) == SelectSeq(rows, LAMBDA r : r.chapter_number = n)
\* db.get_outline: the first such row, or None
NoOutline == [chapter_number |-> 0, outline_text |-> << >>]
get_outline(rows, n) ==
    IF OutlineRows(rows, n) = << >> THEN NoOutline
    ELSE Head(OutlineRows(rows, n))

\* any(get_outline(ch) is None for ch in range(batch_start, batch_end + 1))
has_missing_always(rows, batch_start, batch_end) == TRUE
has_missing(rows, batch_start, batch_end) ==
    \E ch \in batch_start..batch_end : OutlineRows(rows, ch) = << >>

NewOutline(ch_data) ==
    [chapter_number |-> ch_data.chapter_number,
     outline_text |-> ch_data.outline]

\* the persist loop without the look-up before the insert
RECURSIVE persist_unguarded(_, _)
persist_unguarded(rows, ch_list) ==
    IF ch_list = << >> THEN rows
    ELSE LET ch_data == Head(ch_list)
         IN  IF ch_data.chapter_number = 0
             THEN persist_unguarded(rows, Tail(ch_list))
             ELSE persist_unguarded(Append(rows, NewOutline(ch_data)),
                                    Tail(ch_list))

\* the persist loop: for ch_data in vol_data["chapters"]
RECURSIVE persist(_, _)
persist(rows, ch_list) ==
    IF ch_list = << >> THEN rows
    ELSE LET ch_data == Head(ch_list)
         IN  IF ch_data.chapter_number = 0
             THEN persist(rows, Tail(ch_list))
             ELSE IF OutlineRows(rows, ch_data.chapter_number) # << >>
             THEN persist(rows, Tail(ch_list))
             ELSE persist(Append(rows, NewOutline(ch_data)), Tail(ch_list))

\* What design_volume can return for the batch batch_start..batch_end.
\* _parse_volume_chapters takes every "===第N章===" header of the reply
\* with the number N it carries and the outline of its block ("" when the
\* block has no outline line); chapter_start and chapter_end are not used.
Numbered(first, count, outline) ==
    [i \in 1..count |-> [chapter_number |-> first + i - 1, outline |-> outline]]
PlannerReplies(batch_start, batch_end) ==
    LET count == batch_end - batch_start + 1
    IN  { Numbered(batch_start, count, Beat),      \* as asked
          Numbered(batch_start, count, << >>),     \* blocks without outline
          Numbered(1, count, Beat),                \* numbered from 1
          Numbered(batch_start, count + 1, Beat),  \* one chapter too many
          Numbered(batch_end, 1, Beat),            \* the last chapter only
          Numbered(batch_start, 1, Beat) \o Numbered(batch_start, 1, Beat),
          << >> }                                  \* no chapter header

VolumeOf(ch, cpv) == (ch - 1) \div cpv + 1
VolStart(ch, cpv) == (VolumeOf(ch, cpv) - 1) * cpv + 1
VolEnd(ch, cpv) == VolStart(ch, cpv) + cpv - 1

\* batch_size = state.get("outline_batch_size") or _OUTLINE_BATCH_SIZE
BatchSize(override) == IF override = 0 THEN OUTLINE_BATCH_SIZE ELSE override
BatchEnd(c) ==
    Min(c.batch_start + BatchSize(c.outline_batch_size) - 1,
        VolEnd(c.current_ch, c.cpv))

Placeholder(ch) == <<"chapter", ch, "advance the main plot">>

\* the return value of the stage, and the end of the call
Returns(c, text, src) ==
    [c EXCEPT !.phase = "done", !.chapter_outline = text, !.src = src,
              !.revision_count = 0, !.last_node = "load_chapter_context"]

\* the stored rows the novel starts with: at most one per chapter
StoredOutlines == {<< >>} \cup
    { [i \in 1..1 |-> [chapter_number |-> n, outline_text |-> Beat]] :
          n \in 1..ChaptersPerVolume }

ExpansionInit ==
    \E ch \in 1..MaxNeeded, size \in BatchSizes, rows \in StoredOutlines,
       meta \in BOOLEAN :
        /\ Idle
        /\ comp = [fn |-> "load_chapter_context", rows |-> rows,
                   cpv |-> ChaptersPerVolume, planning_metadata |-> meta,
                   outline_batch_size |-> size, current_ch |-> ch,
                   phase |-> "fetch", batch_start |-> 0, passes |-> 0,
                   calls |-> << >>, created |-> {}, loads |-> 1,
                   chapter_outline |-> << >>, src |-> "none",
                   revision_count |-> 1, last_node |-> "advance_chapter"]

Expanding(phase) == comp.fn = "load_chapter_context" /\ comp.phase = phase

\* lines 383-400: the stored outline, or the way into the batch loop, or
\* (no novel, no planning metadata) the placeholder
FetchOutline ==
    /\ Expanding("fetch")
    /\ LET outline == get_outline(comp.rows, comp.current_ch)
       IN  comp' = IF outline # NoOutline
                   THEN Returns(comp, outline.outline_text, "stored")
                   ELSE IF comp.planning_metadata
                   THEN [comp EXCEPT !.phase = "loop",
                                     !.batch_start = comp.current_ch]
                   ELSE Returns(comp, Placeholder(comp.current_ch),
                                "placeholder")
    /\ UNCHANGED PipelineVars

\* the loop test fails: lines 548-585
ExitLoop ==
    /\ Expanding("loop")
    /\ comp.batch_start > VolEnd(comp.current_ch, comp.cpv)
    /\ LET outline == get_outline(comp.rows, comp.current_ch)
       IN  comp' = IF outline # NoOutline
                   THEN Returns(comp, outline.outline_text, "expanded")
                   ELSE Returns(comp, Placeholder(comp.current_ch),
                                "placeholder")
    /\ UNCHANGED PipelineVars

\* a pass over a batch whose outlines all exist: lines 464-468
SkipBatch ==
    /\ Expanding("loop")
    /\ comp.batch_start <= VolEnd(comp.current_ch, comp.cpv)
    /\ comp.passes < MaxPasses
    /\ ~has_missing(comp.rows, comp.batch_start, BatchEnd(comp))
    /\ comp' = [comp EXCEPT !.batch_start = BatchEnd(comp) + 1,
                            !.passes = comp.passes + 1]
    /\ UNCHANGED PipelineVars

\* a pass that asks the Planner for the batch: lines 470-545.  A call that
\* raises leaves the store as a reply without chapters does.
DesignBatch ==
    /\ Expanding("loop")
    /\ comp.batch_start <= VolEnd(comp.current_ch, comp.cpv)
    /\ comp.passes < MaxPasses
    /\ has_missing(comp.rows, comp.batch_start, BatchEnd(comp))
    /\ \E reply \in PlannerReplies(comp.batch_start, BatchEnd(comp)) :
          LET rows == persist(comp.rows, reply)
              outline == get_outline(rows, comp.current_ch)
              called == [comp EXCEPT
                  !.rows = rows,
                  !.passes = comp.passes + 1,
                  !.calls = Append(comp.calls, <<comp.batch_start,
                                                 BatchEnd(comp)>>),
                  !.created = comp.created \cup
                      {rows[i].chapter_number :
                          i \in (Len(comp.rows) + 1)..Len(rows)}]
          IN  comp' = IF outline # NoOutline
                      THEN Returns(called, outline.outline_text, "expanded")
                      ELSE [called EXCEPT
                               !.batch_start = BatchEnd(comp) + 1]
    /\ UNCHANGED PipelineVars

\* the stage is run again for the same chapter
LoadAgain ==
    /\ Expanding("done")
    /\ comp.loads < MaxLoads
    /\ comp' = [comp EXCEPT !.phase = "fetch", !.loads = comp.loads + 1,
                            !.passes = 0, !.calls = << >>, !.created = {},
                            !.revision_count = 1, !.src = "none",
                            !.chapter_outline = << >>]
    /\ UNCHANGED PipelineVars

ExpansionNext ==
    \/ FetchOutline
    \/ ExitLoop
    \/ SkipBatch
    \/ DesignBatch
    \/ LoadAgain

ExpansionSpec == ExpansionInit /\ [][ExpansionNext]_vars

\* C26: at every point the outline store holds at most one row per
\* (novel, chapter_number); running the expansion again over the same
\* chapters adds no duplicate row.
C26_OneOutlinePerChapter ==
    comp.fn = "load_chapter_context" =>
        \A i, j \in 1..Len(comp.rows) :
            comp.rows[i].chapter_number = comp.rows[j].chapter_number => i = j

\* the expansion ran twice for chapter 1 and asked for the same batch again
C26_Witness ==
    /\ Expanding("done") /\ comp.loads = 2 /\ comp.current_ch = 1
    /\ comp.calls # << >> /\ comp.calls[1] = <<1, ChaptersPerVolume>>
    /\ Len(comp.rows) >= 2
    /\ comp.src = "expanded"

\* C27: during on-demand expansion the Planner is called only for a batch
\* with at least one missing outline, and only while the outline of the
\* needed chapter does not exist.
C27_PlannerOnlyForMissing ==
    [][(/\ comp.fn = "load_chapter_context"
        /\ comp'.calls # comp.calls
        /\ comp'.calls # << >>) =>
           LET batch == comp'.calls[Len(comp'.calls)]
           IN  /\ \E ch \in batch[1]..batch[2] :
                      OutlineRows(comp.rows, ch) = << >>
               /\ OutlineRows(comp.rows, comp.current_ch) = << >>]_vars

\* the Planner was asked for a batch, the next batch was complete and was
\* passed over, and the Planner was asked for the one after it
C27_Witness ==
    /\ comp.fn = "load_chapter_context"
    /\ Len(comp.calls) = 2
    /\ comp.calls[2][1] > comp.calls[1][2] + 1

\* C28: every outline row created by on-demand expansion for a needed
\* chapter c has a chapter number between c and the last chapter of the
\* volume containing c.
C28_CreatedWithinVolume ==
    comp.fn = "load_chapter_context" =>
        comp.created \subseteq
            comp.current_ch..VolEnd(comp.current_ch, comp.cpv)

\* C29: LOAD_CHAPTER_CONTEXT always completes with a non-empty
\* chapter_outline and hands over to RETRIEVE_MEMORY, whatever the batch
\* size: the batch loop takes at most one pass per chapter of the volume,
\* and the stage returns an outline (stored, expanded or the placeholder)
\* that is not empty.
C29_LoadAlwaysCompletes ==
    comp.fn = "load_chapter_context" =>
        /\ comp.passes <= comp.cpv
        /\ comp.phase = "done" =>
               /\ comp.chapter_outline # << >>
               /\ comp.src \in OutlineSources
               /\ comp.last_node = "load_chapter_context"

(***************************************************************************)
(* The status of a stored chapter.                                         *)
(***************************************************************************)
StatusRank(status) ==
    CHOOSE i \in DOMAIN ChapterStatuses : ChapterStatuses[i] = status

SameChapter(c, d) ==
    c.novel_id = d.novel_id /\ c.chapter_number = d.chapter_number

\* C30 (as stated): the status of a stored chapter never moves backwards in
\* the order planned, drafted, edited, reviewed, published; SAVE never lowers
\* the status of a record that already exists.
C30_StatusNeverLowered ==
    [][\A c \in chapters, d \in chapters' :
           SameChapter(c, d) =>
               StatusRank(d.status) >= StatusRank(c.status)]_vars

\* C30 (amended): the status of a stored chapter never moves backwards among
\* planned, drafted, edited and reviewed: SAVE stores status reviewed, which
\* raises or keeps each of them, and no other stage touches a record; a
\* record marked published goes back to reviewed when SAVE rewrites it.
C30_StatusNeverBelowReviewed ==
    [][/\ \A c \in chapters, d \in chapters' :
              SameChapter(c, d) =>
                  \/ StatusRank(d.status) >= StatusRank(c.status)
                  \/ c.status = "published" /\ d.status = "reviewed"
       /\ pc # "save_chapter" => chapters' = chapters
       /\ Ran("save_chapter") =>
              \A d \in chapters' :
                  (d.novel_id = state.novel_id
                   /\ d.chapter_number = state.current_chapter) =>
                      d.status = "reviewed"]_vars

\* SAVE has rewritten chapter 1, which the novel already had, in a run that
\* found it with any of the five statuses
C30_Witness ==
    /\ stored0 = 1 /\ reviewer = "pass8"
    /\ args.chapter_list = <<1>>
    /\ pc = "update_memory" /\ state.last_node = "save_chapter"
    /\ chapters = {SavedChapter(state)}
    /\ \A c \in chapters : c.status = "reviewed"

(***************************************************************************)
(* What the Editor is given.                                               *)
(***************************************************************************)
\* C31: the Editor is given review issues if and only if the EDIT is a
\* re-entry after a not-passed review of the chapter in progress, and then it
\* is given the issues of that review together with the latest edited text
\* of the chapter.
C31_EditorGivenIssuesOnReentry ==
    [][Ran("edit_chapter") =>
          LET given == EditorInput(state)
              latest == [chapter |-> state.current_chapter, edits |-> 1]
          IN  /\ given.review_issues # NoIssues <=> reviews > 0
              /\ reviews > 0 => /\ given.content = latest
                                /\ given.review_issues = IssuesOf(latest)]_vars


(***************************************************************************)
(* WriterAgent.write_chapter: the first call of the model and the loop     *)
(* that asks again for a longer text.  A reply is the number of Chinese    *)
(* characters of its text and whether it carries a title of its own; the   *)
(* text of the k-th call is named k.                                       *)
(***************************************************************************)
MAX_RETRIES == 2
WRITER_MIN_CHARS == 1500

WriterLens == {0, 800, 1499, 1500, 2000}
WriterReplies == [len : WriterLens, titled : BOOLEAN]

\* "only accept if it's an improvement", without the comparison
accepts_any(new_count, char_count) == TRUE

\* "only accept if it's an improvement"
accepts(new_count, char_count) == new_count > char_count

WriterInit ==
    /\ Idle
    /\ comp = [fn |-> "write_chapter", at |-> "start", attempt |-> 0,
               calls |-> 0, title |-> 0, content |-> 0, char_count |-> 0,
               lens |-> << >>]

\* the first llm.chat and _parse_writer_output
WriterFirstCall ==
    /\ comp.fn = "write_chapter"
    /\ comp.at = "start"
    /\ \E reply \in WriterReplies :
          comp' = [comp EXCEPT !.at = "loop", !.calls = 1,
                               !.title = IF reply.titled THEN 1 ELSE 0,
                               !.content = 1,
                               !.char_count = reply.len,
                               !.lens = <<reply.len>>]
    /\ UNCHANGED PipelineVars

\* one pass of "for attempt in range(_MAX_RETRIES)" that does not break
WriterRetry ==
    /\ comp.fn = "write_chapter"
    /\ comp.at = "loop"
    /\ comp.attempt < MAX_RETRIES
    /\ ~(comp.char_count >= WRITER_MIN_CHARS)
    /\ \E reply \in WriterReplies :
          LET k == comp.calls + 1
              better == accepts(reply.len, comp.char_count)
          IN  comp' = [comp EXCEPT
                          !.attempt = @ + 1,
                          !.calls = k,
                          !.title = IF reply.titled THEN k ELSE @,
                          !.content = IF better THEN k ELSE @,
                          !.char_count = IF better THEN reply.len ELSE @,
                          !.lens = Append(@, reply.len)]
    /\ UNCHANGED PipelineVars

\* the break, or the end of the range, and the return
WriterReturn ==
    /\ comp.fn = "write_chapter"
    /\ comp.at = "loop"
    /\ comp.attempt >= MAX_RETRIES \/ comp.char_count >= WRITER_MIN_CHARS
    /\ comp' = [comp EXCEPT !.at = "returned"]
    /\ UNCHANGED PipelineVars

WriterNext ==
    \/ WriterFirstCall
    \/ WriterRetry
    \/ WriterReturn

WriterSpec == WriterInit /\ [][WriterNext]_vars

\* C32: within one write_chapter the model is called again only while the
\* retained text is below the floor and at most MAX_RETRIES times; the
\* retained text changes only to the text of the new call and only when that
\* text is strictly longer, so the retained length never decreases.
C32_RetryOnlyBelowFloorAndLonger ==
    [][comp.fn = "write_chapter" /\ comp.calls > 0 =>
          /\ comp'.char_count >= comp.char_count
          /\ comp'.calls \in {comp.calls, comp.calls + 1}
          /\ comp'.calls = comp.calls => comp'.content = comp.content
          /\ comp'.calls > comp.calls =>
                /\ comp.char_count < WRITER_MIN_CHARS
                /\ comp'.calls <= 1 + MAX_RETRIES
                /\ comp'.content # comp.content =>
                      /\ comp'.content = comp'.calls
                      /\ comp'.char_count > comp.char_count
                      /\ comp'.char_count = comp'.lens[comp'.calls]]_vars

\* a returned text that the last allowed retry produced, after a retry whose
\* shorter text was not accepted
C32_Witness ==
    /\ comp.fn = "write_chapter"
    /\ comp.at = "returned"
    /\ comp.calls = 1 + MAX_RETRIES
    /\ comp.lens = <<800, 0, 1499>>
    /\ comp.content = 3
    /\ comp.char_count = 1499


(***************************************************************************)
(* The summary store and MemoryRetriever.assemble_context_async.  The      *)
(* store is the set of chapter numbers that have a summary; a result is    *)
(* the sequence of the chapter numbers of its items.                       *)
(***************************************************************************)
MaxStored == 4          \* summaries may be stored for chapters 1..MaxStored
RECENT_COUNT == 3
TOP_K == 7

Range(seq) == {seq[i] : i \in DOMAIN seq}

\* sorted(S): the members of S in ascending order
RECURSIVE Ascending(_)
Ascending(S) ==
    IF S = {} THEN << >>
    ELSE LET least == CHOOSE x \in S : \A y \in S : x <= y
         IN  <<least>> \o Ascending(S \ {least})

\* range(max(1, current_chapter - count), current_chapter)
chapter_range(current_chapter, count) ==
    Max(1, current_chapter - count)..(current_chapter - 1)

\* ChromaStore.get_recent_summaries; store_ok is FALSE when summaries.get
\* raises
get_recent_summaries(stored, current_chapter, count, store_ok) ==
    IF chapter_range(current_chapter, count) = {} THEN << >>
    ELSE IF ~store_ok THEN << >>
    ELSE Ascending(chapter_range(current_chapter, count) \cap stored)

\* ChromaStore.search_relevant_summaries; ranked is the order in which the
\* collection returns the summaries of the novel for the query
search_relevant_summaries(ranked, exclude_chapters, top_k) ==
    LET n_results == top_k + Len(exclude_chapters)
        found == SubSeq(ranked, 1, Min(n_results, Len(ranked)))
        output == SelectSeq(found,
                            LAMBDA ch : ch \notin Range(exclude_chapters))
    IN  SubSeq(output, 1, Min(top_k, Len(output)))

Rankings(stored) ==
    {f \in [1..Cardinality(stored) -> stored] :
        \A i, j \in DOMAIN f : i # j => f[i] # f[j]}

Phase1Tasks ==
    {"get_recent_summaries", "get_characters", "get_all_character_states",
     "get_unresolved_events", "get_world_settings"}

\* asyncio.gather returns without waiting
gathered_at_once(done) == TRUE

\* asyncio.gather returns when every task it was given has completed
gathered(done) == done = Phase1Tasks

GetRecentInit ==
    \E stored \in SUBSET (1..MaxStored), n \in 1..(MaxStored + 2),
       count \in 1..RECENT_COUNT, ok \in BOOLEAN :
        /\ Idle
        /\ comp = [fn |-> "get_recent_summaries", stored |-> stored,
                   current_chapter |-> n, count |-> count, store_ok |-> ok,
                   done |-> FALSE, result |-> << >>]

GetRecentSummaries ==
    /\ comp.fn = "get_recent_summaries"
    /\ ~comp.done
    /\ comp' = [comp EXCEPT
                   !.done = TRUE,
                   !.result = get_recent_summaries(
                                  comp.stored, comp.current_chapter,
                                  comp.count, comp.store_ok)]
    /\ UNCHANGED PipelineVars

AssembleAsyncInit ==
    \E stored \in SUBSET (1..MaxStored), n \in 1..(MaxStored + 1),
       ok \in BOOLEAN :
        /\ Idle
        /\ comp = [fn |-> "assemble_context_async", stored |-> stored,
                   current_chapter_number |-> n, store_ok |-> ok,
                   at |-> "start", done |-> {}, recent |-> << >>,
                   exclude_chapters |-> << >>, relevant |-> << >>]

\* the five to_thread calls handed to asyncio.gather
StartPhase1 ==
    /\ comp.fn = "assemble_context_async"
    /\ comp.at = "start"
    /\ comp' = [comp EXCEPT !.at = "gather"]
    /\ UNCHANGED PipelineVars

\* one of the five threads finishes, in any order
CompleteTask ==
    /\ comp.fn = "assemble_context_async"
    /\ comp.at = "gather"
    /\ \E t \in Phase1Tasks \ comp.done :
          comp' = [comp EXCEPT
                      !.done = @ \cup {t},
                      !.recent =
                          IF t = "get_recent_summaries"
                          THEN get_recent_summaries(
                                   comp.stored, comp.current_chapter_number,
                                   RECENT_COUNT, comp.store_ok)
                          ELSE @]
    /\ UNCHANGED PipelineVars

\* gather has returned; exclude_chapters is built and the search is started
StartSearch ==
    /\ comp.fn = "assemble_context_async"
    /\ comp.at = "gather"
    /\ gathered(comp.done)
    /\ comp' = [comp EXCEPT
                   !.at = "search",
                   !.exclude_chapters =
                       Append(comp.recent, comp.current_chapter_number)]
    /\ UNCHANGED PipelineVars

\* the search returns and its items are sorted by chapter number
CompleteSearch ==
    /\ comp.fn = "assemble_context_async"
    /\ comp.at = "search"
    /\ \E ranked \in Rankings(comp.stored) :
          comp' = [comp EXCEPT
                      !.at = "assembled",
                      !.relevant =
                          Ascending(Range(search_relevant_summaries(
                              ranked, comp.exclude_chapters, TOP_K)))]
    /\ UNCHANGED PipelineVars

RetrieverInit == GetRecentInit \/ AssembleAsyncInit

RetrieverNext ==
    \/ GetRecentSummaries
    \/ StartPhase1
    \/ CompleteTask
    \/ StartSearch
    \/ CompleteSearch

RetrieverSpec == RetrieverInit /\ [][RetrieverNext]_vars

\* C33: the relevance search is started only after the fetch of the recent
\* summaries has completed, and the exclusion list it is given holds exactly
\* the chapters that fetch returned and the current chapter.
C33_SearchAfterRecent ==
    comp.fn = "assemble_context_async" /\ comp.at \in {"search", "assembled"}
    => /\ "get_recent_summaries" \in comp.done
       /\ comp.recent = get_recent_summaries(
                            comp.stored, comp.current_chapter_number,
                            RECENT_COUNT, comp.store_ok)
       /\ Range(comp.exclude_chapters) =
              Range(comp.recent) \cup {comp.current_chapter_number}
       /\ comp.at = "assembled" =>
              Range(comp.relevant) \cap Range(comp.exclude_chapters) = {}

\* the search has run with two recent chapters excluded and has found an
\* earlier one
C33_Witness ==
    /\ comp.fn = "assemble_context_async"
    /\ comp.at = "assembled"
    /\ comp.current_chapter_number = 5
    /\ comp.stored = {1, 2, 3, 4}
    /\ comp.store_ok
    /\ comp.exclude_chapters = <<2, 3, 4, 5>>
    /\ comp.relevant = <<1>>

\* the count stored chapters with the highest numbers below current_chapter
HighestBelow(stored, current_chapter, count) ==
    LET below == {c \in stored : c < current_chapter}
    IN  {c \in below : Cardinality({d \in below : d > c}) < count}

\* C35: get_recent_summaries returns, in ascending chapter order, the count
\* stored summaries with the highest chapter numbers below current_chapter,
\* or all of those below it when there are fewer than count.
C35_RecentAreHighestBelow ==
    comp.fn = "get_recent_summaries" /\ comp.done
    => comp.result = Ascending(HighestBelow(comp.stored, comp.current_chapter,
                                            comp.count))


(***************************************************************************)
(* A run with a Progress Observer: _run_with_callback drives the graph     *)
(* with astream and calls the observer after every node.  What the         *)
(* callbacks do is not known: each call returns or raises.                 *)
(***************************************************************************)
\* callback.on_node_exit, on_chapter_complete or on_error raises inside the
\* "async for" of _run_with_callback: the exception leaves run_workflow and
\* no further node runs
ObserverRaises ==
    /\ pc \notin Terminal \cup {"CallbackError"}
    /\ 0 < steps
    /\ steps < recursion_limit
    /\ pc' = "CallbackError"
    /\ raised_at' = pc
    /\ UNCHANGED <<state, novels, chapters, steps, Fixed, Ghosts, OutlineVars>>

ObservedNext ==
    \/ Next
    \/ ObserverRaises

ObservedSpec == Init /\ [][ObservedNext]_vars

\* C34: a run with an observer attached executes the stages, and persists
\* the data, of the run without one, whatever the callbacks do: each of its
\* steps is a step of the graph on its own.
C34_ObserverNeverInfluences == [][Next]_vars


(***************************************************************************)
(* ReviewerAgent.review_chapter on its own: the verdict for any score the  *)
(* model may report, in whole points, and any list of issues, each known   *)
(* by its severity.                                                        *)
(***************************************************************************)
MaxRawScore == 12       \* raw scores range over -2..MaxRawScore
MaxIssues == 2          \* issues in one raw review

Severities == {"critical", "major", "minor"}
IssueLists == UNION {[1..n -> Severities] : n \in 0..MaxIssues}

\* sum(1 for i in issues if i.get("severity") == "critical")
critical_count(issues) ==
    Cardinality({i \in DOMAIN issues : issues[i] = "critical"})

ReviewInit ==
    \E score \in (-2)..MaxRawScore, issues \in IssueLists :
        /\ Idle
        /\ comp = [fn |-> "review_chapter", score |-> score,
                   issues |-> issues, done |-> FALSE, result |-> EmptyReview]

ReviewerReviewChapter ==
    /\ comp.fn = "review_chapter"
    /\ ~comp.done
    /\ comp' = [comp EXCEPT
                   !.done = TRUE,
                   !.result = ReviewerAgent_review_chapter(
                                  [score |-> comp.score,
                                   critical |-> critical_count(comp.issues)])]
    /\ UNCHANGED PipelineVars

ReviewerSpec == ReviewInit /\ [][ReviewerReviewChapter]_vars

\* C36 as stated: passed is true if and only if the score, clamped to 0..10,
\* is above the threshold and no issue is critical.
C36_PassedIffAboveThreshold ==
    comp.fn = "review_chapter" /\ comp.done
    => (comp.result.passed <=>
            /\ Clamped(comp.score) > PASS_SCORE
            /\ \A i \in DOMAIN comp.issues : comp.issues[i] # "critical")

\* C36, amended: the result carries the score clamped to 0..10, and passed is
\* true if and only if that score is at least the threshold and no issue is
\* critical.
C36_PassedIffAtLeastThreshold ==
    comp.fn = "review_chapter" /\ comp.done
    => /\ comp.result.score \in 0..10
       /\ comp.result.score = comp.score \/ comp.score \notin 0..10
       /\ comp.result.passed <=>
              /\ comp.result.score >= PASS_SCORE
              /\ \A i \in DOMAIN comp.issues : comp.issues[i] # "critical"

\* a review that scores exactly the threshold, with an issue that is not
\* critical, has passed
C36_Witness ==
    /\ comp.fn = "review_chapter"
    /\ comp.done
    /\ comp.score = PASS_SCORE
    /\ comp.issues = <<"major">>
    /\ comp.result.passed


(***************************************************************************)
(* What SAVE stores.                                                       *)
(***************************************************************************)
\* C37: the content SAVE stores for chapter N is the text the Writer drafted
\* and the Editor edited for chapter N, also in a run in which a call of the
\* Writer or the Editor fails.
C37_SavedContentIsOfChapter ==
    [][Ran("save_chapter") =>
          \A c \in chapters' :
              c.chapter_number = state.current_chapter =>
                  c.content = [chapter |-> state.current_chapter,
                               edits |-> 1]]_vars


(***************************************************************************)
(* A failure of the Planner.                                               *)
(***************************************************************************)
\* C38: when the Planner fails during PLAN in new mode, the run stops there:
\* no chapter stage follows, and nothing is persisted.
C38_PlannerFailureStopsRun ==
    [][Ran("plan_novel") /\ state.mode = "new" /\ state'.error # NoError =>
          /\ pc' \in {"__end__", "handle_error"}
          /\ chapters' = chapters
          /\ outlines' = outlines]_vars


(***************************************************************************)
(* The step limit of the driver.                                           *)
(***************************************************************************)
\* C39: a run over a finite number of requested chapters, which the graph
\* would bring to its end, is never cut short by the step limit
\* max(50, 15 * n + 30), whatever max_revisions >= 1 and
\* global_review_interval >= 1 are.
C39_StepLimitNeverReached ==
    args.chapter_list # << >> \/ args.target_chapters > 0
    => pc # "GraphRecursionError"


(***************************************************************************)
(* Two calls of run_workflow in one process, as two tasks of one event     *)
(* loop.  The module globals _resources and _active_callback are shared;   *)
(* a task gives way to the other at the awaits, that is between the start  *)
(* of a run, its nodes and its end.  A _WorkflowResources object is known  *)
(* by the order of its creation; 0 stands for None.                        *)
(***************************************************************************)
MaxNodes == 2           \* nodes one run executes
RunIds == {1, 2}

NoNode == [run |-> 0, resources |-> 0, closed |-> FALSE, observer |-> 0]

ConcurrentInit ==
    \E n \in [RunIds -> 1..MaxNodes], cb \in [RunIds -> BOOLEAN] :
        /\ Idle
        /\ comp = [fn |-> "run_workflow",
                   at |-> [r \in RunIds |-> "called"],
                   left |-> n,
                   callback |-> cb,
                   resources |-> 0,
                   active_callback |-> 0,
                   owner |-> << >>,
                   closed |-> {},
                   last |-> NoNode]

\* run_workflow up to the first await: _resources = _WorkflowResources(),
\* and _active_callback = callback when a callback was given
StartRun(r) ==
    /\ comp.fn = "run_workflow"
    /\ comp.at[r] = "called"
    /\ comp' = [comp EXCEPT
                   !.at[r] = "running",
                   !.owner = Append(@, r),
                   !.resources = Len(comp.owner) + 1,
                   !.active_callback = IF comp.callback[r] THEN r ELSE @]
    /\ UNCHANGED PipelineVars

\* a node of run r: r = _get_resources(), which creates the object when the
\* global is None; the node reports to _active_callback
RunNode(r) ==
    /\ comp.fn = "run_workflow"
    /\ comp.at[r] = "running"
    /\ comp.left[r] > 0
    /\ LET create == comp.resources = 0
           used == IF create THEN Len(comp.owner) + 1 ELSE comp.resources
       IN  comp' = [comp EXCEPT
                       !.left[r] = @ - 1,
                       !.owner = IF create THEN Append(@, r) ELSE @,
                       !.resources = used,
                       !.last = [run |-> r, resources |-> used,
                                 closed |-> used \in comp.closed,
                                 observer |-> comp.active_callback]]
    /\ UNCHANGED PipelineVars

\* the graph of run r has ended: the two finally clauses
FinishRun(r) ==
    /\ comp.fn = "run_workflow"
    /\ comp.at[r] = "running"
    /\ comp.left[r] = 0
    /\ LET cleared == IF comp.callback[r] THEN 0 ELSE comp.active_callback
       IN  IF comp.resources = 0
           THEN comp' = [comp EXCEPT !.at[r] = "AttributeError",
                                     !.active_callback = cleared]
           ELSE comp' = [comp EXCEPT
                            !.at[r] = "returned",
                            !.active_callback = cleared,
                            !.closed = @ \cup {comp.resources},
                            !.resources = 0]
    /\ UNCHANGED PipelineVars

ConcurrentNext ==
    \/ \E r \in RunIds : StartRun(r)
    \/ \E r \in RunIds : RunNode(r)
    \/ \E r \in RunIds : FinishRun(r)

ConcurrentSpec == ConcurrentInit /\ [][ConcurrentNext]_vars

\* C40: two concurrent runs do not interfere: a node of a run uses the
\* resources that run created, never closed ones, and reports to that run's
\* observer or to none; a run's end closes only its own resources and
\* returns.
C40_RunsDoNotInterfere ==
    comp.fn = "run_workflow"
    => /\ comp.last.run # 0 =>
              /\ comp.owner[comp.last.resources] = comp.last.run
              /\ ~comp.last.closed
              /\ comp.last.observer =
                     IF comp.callback[comp.last.run] THEN comp.last.run ELSE 0
       /\ \A r \in RunIds : comp.at[r] # "AttributeError"
       /\ \A id \in comp.closed : comp.at[comp.owner[id]] = "returned"

=============================================================================
